---- MODULE Spec2Model ----
(***************************************************************************)
(* Model of src/utils/pure.ts: the object transforms (cloneObject,         *)
(* deepMergeObject) over a heap of JavaScript objects with identity, and   *)
(* the random helpers (random, randomString, getRandomItem, getVisitId).   *)
(***************************************************************************)
EXTENDS Integers, Sequences, FiniteSets, TLC

\* heap:   the objects alive, by address
\* pre:    the heap as it was when the last call was made
\* call:   the last call: its arguments, its result, whether it threw
\* ncalls: the number of calls made
\* lent:   the containers that were part of the source argument of a
\*         deepMergeObject call that has returned
\* rnd:    a call of random: its arguments, the sample Math.random() gave,
\*         the normalized arguments and the result
\* vis:    a call of getVisitId: where it is, randomNum, the string built
VARIABLES heap, pre, call, ncalls, lent, rnd, vis

vars == <<heap, pre, call, ncalls, lent, rnd, vis>>

(***************************************************************************)
(* Bounds of the model.                                                    *)
(***************************************************************************)
\* number of objects the heap may hold
MaxObj == 7
\* number of own keys (or elements) one object may hold
MaxLen == 4
\* number of calls in one session
MaxCalls == 2
\* Math.random() is sampled on the grid of the numbers in [0, 1) with this many
\* decimal digits
RandDigits == 2

(***************************************************************************)
(* JavaScript values: <<tag, n>>.  A container value is a reference to a   *)
(* heap address, so two references are the same instance iff equal.        *)
(***************************************************************************)
RandDen == 10 ^ RandDigits

\* numbers are fixed-point: <<"num", q>> is the number q / Unit, exact for the
\* halves, the samples of Math.random() and the products random() forms of them
Unit == 2 * 10 ^ (2 * RandDigits + 1)

Undef == <<"undef", 0>>
Null == <<"null", 0>>
Num(n) == <<"num", n * Unit>>
Halves(n) == <<"num", n * (Unit \div 2)>>
NaN == <<"nan", 0>>
False == <<"bool", 0>>
True == <<"bool", 1>>
\* strings: 0 is the empty string, 1 is "x", 2 is a longer string
Str(i) == <<"str", i>>
EmptyStr == Str(0)
Ref(a) == <<"ref", a>>

Scalars == {Undef, Null, Num(0), Num(1), False, EmptyStr}

IsRef(v) == v[1] = "ref"

\* JavaScript ToBoolean, as used by `target || source`
Truthy(v) ==
  CASE v[1] = "undef" -> FALSE
    [] v[1] = "null" -> FALSE
    [] v[1] = "num" -> v[2] # 0
    [] v[1] = "bool" -> v[2] = 1
    [] v[1] = "str" -> v[2] # 0
    [] v[1] = "nan" -> FALSE
    [] OTHER -> TRUE

\* isObject of ./is: true exactly of the container values (mappings and sequences)
isObject(v) == IsRef(v)

(***************************************************************************)
(* Heap objects: own enumerable keys in JavaScript's own-key order (index  *)
(* keys ascending, then string keys in insertion order) with their values. *)
(***************************************************************************)
Obj(kind, keys, vals) == [kind |-> kind, keys |-> keys, vals |-> vals]

\* an array literal [v1, ..., vn]
ArrayOf(vals) == Obj("arr", [i \in 1..Len(vals) |-> ToString(i - 1)], vals)

\* an object literal {k1: v1, ..., kn: vn}
MapOf(keys, vals) == Obj("map", keys, vals)

IndexOf(k) == IF \E i \in 0..(2 * MaxLen + 2) : ToString(i) = k
              THEN CHOOSE i \in 0..(2 * MaxLen + 2) : ToString(i) = k
              ELSE -1

IsIndex(k) == IndexOf(k) >= 0

HasKey(o, k) == \E i \in 1..Len(o.keys) : o.keys[i] = k

\* o[k]: the value under key k, undefined when k is no own key
Get(o, k) ==
  IF HasKey(o, k) THEN o.vals[CHOOSE i \in 1..Len(o.keys) : o.keys[i] = k]
  ELSE Undef

InsertAt(s, p, x) == SubSeq(s, 1, p) \o <<x>> \o SubSeq(s, p + 1, Len(s))

\* o[k] = v: an existing key keeps its place; a new index key goes among the
\* index keys in ascending order, a new string key at the end
Put(o, k, v) ==
  IF HasKey(o, k)
  THEN [o EXCEPT !.vals[CHOOSE i \in 1..Len(o.keys) : o.keys[i] = k] = v]
  ELSE LET p == IF IsIndex(k)
                THEN Cardinality({j \in 1..Len(o.keys) :
                        IsIndex(o.keys[j]) /\ IndexOf(o.keys[j]) < IndexOf(k)})
                ELSE Len(o.keys)
       IN [o EXCEPT !.keys = InsertAt(@, p, k), !.vals = InsertAt(@, p, v)]

\* the elements of an array: the values under its index keys
Elements(o) ==
  LET n == Cardinality({j \in 1..Len(o.keys) : IsIndex(o.keys[j])})
  IN SubSeq(o.vals, 1, n)

IsArray(h, v) == IsRef(v) /\ h[v[2]].kind = "arr"

\* recursion deeper than this ends in a RangeError (the call stack is finite)
MaxDepth == MaxObj + 1

Return(h, v) == [heap |-> h, ret |-> v, err |-> FALSE]
Throw(h) == [heap |-> h, ret |-> Undef, err |-> TRUE]

(***************************************************************************)
(* cloneObject(object, deep)                                               *)
(***************************************************************************)
RECURSIVE cloneObject(_, _, _, _)
RECURSIVE CloneInto(_, _, _, _, _, _, _)

\* a faulty variant of CloneInto: result[key] = value, the members are not cloned
RECURSIVE CloneIntoShared(_, _, _, _, _, _, _)
CloneIntoShared(h, ks, vs, i, n, deep, d) ==
  IF i > Len(ks) THEN Return(h, Ref(n))
  ELSE CloneIntoShared([h EXCEPT ![n] = Put(@, ks[i], vs[i])],
                       ks, vs, i + 1, n, deep, d)

\* result[key] = cloneObject(value, deep) for the keys ks[i..] of the source
\* object, writing into the fresh object at address n
CloneInto(h, ks, vs, i, n, deep, d) ==
  IF i > Len(ks) THEN Return(h, Ref(n))
  ELSE LET r == cloneObject(h, vs[i], deep, d + 1)
       IN IF r.err THEN Throw(r.heap)
          ELSE CloneInto([r.heap EXCEPT ![n] = Put(@, ks[i], r.ret)],
                         ks, vs, i + 1, n, deep, d)

\* a faulty variant of cloneObject: a mapping cloned with deep unset is returned itself
cloneObjectSame(h, object, deep, d) ==
  IF d > MaxDepth THEN Throw(h)
  ELSE IF ~isObject(object) THEN Return(h, object)
  ELSE LET o == h[object[2]]
           n == Len(h) + 1
       IN IF o.kind = "arr"
          THEN LET es == Elements(o)
               IN CloneInto(Append(h, ArrayOf(<<>>)),
                            [i \in 1..Len(es) |-> ToString(i - 1)], es, 1, n, deep, d)
          ELSE IF deep
          THEN CloneInto(Append(h, MapOf(<<>>, <<>>)), o.keys, o.vals, 1, n, deep, d)
          ELSE Return(h, object)

cloneObject(h, object, deep, d) ==
  IF d > MaxDepth THEN Throw(h)
  ELSE IF ~isObject(object) THEN Return(h, object)
  ELSE LET o == h[object[2]]
           n == Len(h) + 1
       IN IF o.kind = "arr"
          THEN LET es == Elements(o)
               IN CloneInto(Append(h, ArrayOf(<<>>)),
                            [i \in 1..Len(es) |-> ToString(i - 1)], es, 1, n, deep, d)
          ELSE IF deep
          THEN CloneInto(Append(h, MapOf(<<>>, <<>>)), o.keys, o.vals, 1, n, deep, d)
          ELSE Return(Append(h, MapOf(o.keys, o.vals)), Ref(n))

(***************************************************************************)
(* deepMergeObject(target, source)                                         *)
(***************************************************************************)
RECURSIVE deepMergeObject(_, _, _, _)
RECURSIVE MergeKeys(_, _, _, _, _, _)

\* a faulty variant of MergeKeys: result[key] = source[key], a shallow assign
RECURSIVE MergeKeysShallow(_, _, _, _, _, _)
MergeKeysShallow(h, t, s, ks, i, d) ==
  IF i > Len(ks) THEN Return(h, Ref(t))
  ELSE MergeKeysShallow([h EXCEPT ![t] = Put(@, ks[i], Get(h[s], ks[i]))],
                        t, s, ks, i + 1, d)

\* the reduce over Object.keys(source): result[key] =
\* deepMergeObject(target[key], source[key]), with result the target itself
MergeKeys(h, t, s, ks, i, d) ==
  IF i > Len(ks) THEN Return(h, Ref(t))
  ELSE LET r == deepMergeObject(h, Get(h[t], ks[i]), Get(h[s], ks[i]), d + 1)
       IN IF r.err THEN Throw(r.heap)
          ELSE MergeKeys([r.heap EXCEPT ![t] = Put(@, ks[i], r.ret)],
                         t, s, ks, i + 1, d)

\* a faulty variant of deepMergeObject: no case for two sequences, which are merged
\* index by index like mappings
deepMergeObjectByIndex(h, target, source, d) ==
  IF d > MaxDepth THEN Throw(h)
  ELSE IF target = Undef \/ source = Undef
  THEN Return(h, IF Truthy(target) THEN target ELSE source)
  ELSE IF ~isObject(target) \/ ~isObject(source) THEN Return(h, source)
  ELSE MergeKeys(h, target[2], source[2], h[source[2]].keys, 1, d)

\* a faulty variant of deepMergeObject: a source met by an undefined target is copied
deepMergeObjectCopying(h, target, source, d) ==
  IF d > MaxDepth THEN Throw(h)
  ELSE IF target = Undef THEN cloneObject(h, source, TRUE, d)
  ELSE IF source = Undef THEN Return(h, target)
  ELSE IF ~isObject(target) \/ ~isObject(source) THEN Return(h, source)
  ELSE IF IsArray(h, target) /\ IsArray(h, source)
  THEN Return(Append(h, ArrayOf(Elements(h[target[2]]) \o Elements(h[source[2]]))),
              Ref(Len(h) + 1))
  ELSE MergeKeys(h, target[2], source[2], h[source[2]].keys, 1, d)

deepMergeObject(h, target, source, d) ==
  IF d > MaxDepth THEN Throw(h)
  ELSE IF target = Undef \/ source = Undef
  THEN Return(h, IF Truthy(target) THEN target ELSE source)
  ELSE IF ~isObject(target) \/ ~isObject(source) THEN Return(h, source)
  ELSE IF IsArray(h, target) /\ IsArray(h, source)
  THEN Return(Append(h, ArrayOf(Elements(h[target[2]]) \o Elements(h[source[2]]))),
              Ref(Len(h) + 1))
  ELSE MergeKeys(h, target[2], source[2], h[source[2]].keys, 1, d)

(***************************************************************************)
(* random(lower, upper, floating)                                          *)
(***************************************************************************)
IsBoolean(v) == v[1] = "bool"

\* JavaScript ToNumber
ToNumber(v) ==
  CASE v[1] = "num" -> v
    [] v[1] = "null" -> Num(0)
    [] v[1] = "bool" -> Num(v[2])
    [] v[1] = "str" -> IF v[2] = 0 THEN Num(0) ELSE NaN
    [] OTHER -> NaN

IsNaN(v) == v[1] = "nan"

\* a - b
Minus(a, b) ==
  LET x == ToNumber(a)
      y == ToNumber(b)
  IN IF IsNaN(x) \/ IsNaN(y) THEN NaN ELSE <<"num", x[2] - y[2]>>

\* a + b: concatenation when either is a string (the text is not followed
\* further: some longer string), else the sum of the numbers
Plus(a, b) ==
  IF a[1] = "str" \/ b[1] = "str" THEN Str(2)
  ELSE LET x == ToNumber(a)
           y == ToNumber(b)
       IN IF IsNaN(x) \/ IsNaN(y) THEN NaN ELSE <<"num", x[2] + y[2]>>

\* a > b (the strings at hand are equal when both are strings, and a string
\* against a number compares as a number)
Greater(a, b) ==
  LET x == ToNumber(a)
      y == ToNumber(b)
  IN ~IsNaN(x) /\ ~IsNaN(y) /\ x[2] > y[2]

\* a % 1 is truthy: a has a fractional part
HasFraction(a) ==
  LET x == ToNumber(a)
  IN ~IsNaN(x) /\ x[2] % Unit # 0

\* Math.floor(a)
Floor(a) == IF IsNaN(a) THEN NaN ELSE <<"num", a[2] - (a[2] % Unit)>>

\* Math.min(a, b)
Min(a, b) ==
  LET x == ToNumber(a)
      y == ToNumber(b)
  IN IF IsNaN(x) \/ IsNaN(y) THEN NaN ELSE IF x[2] <= y[2] THEN x ELSE y

\* the sample k / RandDen of Math.random() times a
TimesRand(k, a) ==
  LET x == ToNumber(a)
  IN IF IsNaN(x) THEN NaN ELSE <<"num", (x[2] \div RandDen) * k>>

\* the number of trailing zeros of the RandDigits-digit numeral of k > 0
RECURSIVE TrailingZeros(_)
TrailingZeros(k) == IF k % 10 = 0 THEN 1 + TrailingZeros(k \div 10) ELSE 0

\* (rand + '').length for the sample k / RandDen: "0", or "0." and its digits
RandStrLen(k) == IF k = 0 THEN 1 ELSE 2 + RandDigits - TrailingZeros(k)

\* parseFloat('1e-' + ((rand + '').length - 1))
Epsilon(k) == <<"num", Unit \div (10 ^ (RandStrLen(k) - 1))>>

\* a faulty variant of Normalize: lower > upper are not swapped
NormalizeNoSwap(lower, upper, floating) ==
  LET drop == Truthy(floating) /\ ~IsBoolean(floating)
      f1 == IF drop THEN Undef ELSE floating
      u1 == IF drop THEN Undef ELSE upper
      fromUpper == f1 = Undef /\ IsBoolean(u1)
      fromLower == f1 = Undef /\ ~IsBoolean(u1) /\ IsBoolean(lower)
      f2 == IF fromUpper THEN u1 ELSE IF fromLower THEN lower ELSE f1
      u2 == IF fromUpper THEN Undef ELSE u1
      l2 == IF fromLower THEN Undef ELSE lower
      l3 == IF l2 = Undef /\ u2 = Undef THEN Num(0)
            ELSE IF u2 = Undef THEN Num(0) ELSE l2
      u3 == IF l2 = Undef /\ u2 = Undef THEN Num(1)
            ELSE IF u2 = Undef THEN l2 ELSE u2
  IN [lower |-> l3, upper |-> u3, floating |-> f2]

\* lines 39-62: the arguments after the shuffling, the defaults and the swap
Normalize(lower, upper, floating) ==
  LET drop == Truthy(floating) /\ ~IsBoolean(floating)
      f1 == IF drop THEN Undef ELSE floating
      u1 == IF drop THEN Undef ELSE upper
      fromUpper == f1 = Undef /\ IsBoolean(u1)
      fromLower == f1 = Undef /\ ~IsBoolean(u1) /\ IsBoolean(lower)
      f2 == IF fromUpper THEN u1 ELSE IF fromLower THEN lower ELSE f1
      u2 == IF fromUpper THEN Undef ELSE u1
      l2 == IF fromLower THEN Undef ELSE lower
      l3 == IF l2 = Undef /\ u2 = Undef THEN Num(0)
            ELSE IF u2 = Undef THEN Num(0) ELSE l2
      u3 == IF l2 = Undef /\ u2 = Undef THEN Num(1)
            ELSE IF u2 = Undef THEN l2 ELSE u2
  IN IF Greater(l3, u3)
     THEN [lower |-> u3, upper |-> l3, floating |-> f2]
     ELSE [lower |-> l3, upper |-> u3, floating |-> f2]

\* a faulty variant of IntegerDraw: Math.round in place of Math.floor
IntegerDrawRound(lower, upper, k) ==
  Plus(lower, Floor(Plus(TimesRand(k, Plus(Minus(upper, lower), Num(1))), Halves(1))))

\* line 70: lower + Math.floor(Math.random() * (upper - lower + 1))
IntegerDraw(lower, upper, k) ==
  Plus(lower, Floor(TimesRand(k, Plus(Minus(upper, lower), Num(1)))))

\* lines 64-68: Math.min(lower + rand * (upper - lower + epsilon), upper)
FloatDraw(lower, upper, k) ==
  Min(Plus(lower, TimesRand(k, Plus(Minus(upper, lower), Epsilon(k)))), upper)

\* random(lower, upper, floating) when Math.random() gives k / RandDen
random(lower, upper, floating, k) ==
  LET n == Normalize(lower, upper, floating)
  IN IF Truthy(n.floating) \/ HasFraction(n.lower) \/ HasFraction(n.upper)
     THEN FloatDraw(n.lower, n.upper, k)
     ELSE IntegerDraw(n.lower, n.upper, k)

(***************************************************************************)
(* getRandomItem, randomString, getVisitId.  A string is the sequence of   *)
(* its characters.                                                         *)
(***************************************************************************)
Digits == <<"0", "1", "2", "3", "4", "5", "6", "7", "8", "9">>

LowerLetters == <<"a", "b", "c", "d", "e", "f", "g", "h", "i", "j", "k", "l", "m",
                  "n", "o", "p", "q", "r", "s", "t", "u", "v", "w", "x", "y", "z">>

UpperLetters == <<"A", "B", "C", "D", "E", "F", "G", "H", "I", "J", "K", "L", "M",
                  "N", "O", "P", "Q", "R", "S", "T", "U", "V", "W", "X", "Y", "Z">>

\* line 79: '1234567890abcdefghijklmnopqrstuvwxyzABCDEFGHIJKLMNOPQRSTUVWXYZ'
chars == SubSeq(Digits, 2, 10) \o <<"0">> \o LowerLetters \o UpperLetters

\* the length randomString is asked for by getVisitId
VisitStrLen == 10

\* String.prototype.toLowerCase, character by character
LowerChar(c) ==
  IF \E i \in 1..Len(UpperLetters) : UpperLetters[i] = c
  THEN LowerLetters[CHOOSE i \in 1..Len(UpperLetters) : UpperLetters[i] = c]
  ELSE c

toLowerCase(str) == [i \in 1..Len(str) |-> LowerChar(str[i])]

\* the decimal numeral of a natural number
RECURSIVE NatChars(_)
NatChars(n) ==
  IF n < 10 THEN <<Digits[n + 1]>> ELSE NatChars(n \div 10) \o <<Digits[(n % 10) + 1]>>

\* the decimals of the fraction r / Unit
RECURSIVE FractionChars(_)
FractionChars(r) ==
  IF r = 0 THEN <<>>
  ELSE <<Digits[((r * 10) \div Unit) + 1]>> \o FractionChars((r * 10) % Unit)

\* the text a value gives when it is put into a string
Text(v) ==
  CASE v[1] = "chr" -> <<v[2]>>
    [] v[1] = "undef" -> <<"u", "n", "d", "e", "f", "i", "n", "e", "d">>
    [] v[1] = "nan" -> <<"N", "a", "N">>
    [] v[1] = "num" ->
         LET a == IF v[2] < 0 THEN -v[2] ELSE v[2]
         IN (IF v[2] < 0 THEN <<"-">> ELSE <<>>)
            \o NatChars(a \div Unit)
            \o (IF a % Unit = 0 THEN <<>> ELSE <<".">> \o FractionChars(a % Unit))
    [] OTHER -> <<"?">>

\* a faulty variant of getRandomItem: random(indexable.length), one index too many
getRandomItemOffByOne(indexable, k) ==
  LET i == random(Num(Len(indexable)), Undef, Undef, k)
  IN IF i[1] = "num" /\ i[2] % Unit = 0 /\ i[2] \div Unit \in 0..(Len(indexable) - 1)
     THEN <<"chr", indexable[(i[2] \div Unit) + 1]>>
     ELSE Undef

\* indexable[random(indexable.length - 1)]: a character, or undefined when the
\* index is no index of indexable
getRandomItem(indexable, k) ==
  LET i == random(Num(Len(indexable) - 1), Undef, Undef, k)
  IN IF i[1] = "num" /\ i[2] % Unit = 0 /\ i[2] \div Unit \in 0..(Len(indexable) - 1)
     THEN <<"chr", indexable[(i[2] \div Unit) + 1]>>
     ELSE Undef

(***************************************************************************)
(* Reading the heap.                                                       *)
(***************************************************************************)
KeySet(o) == {o.keys[i] : i \in 1..Len(o.keys)}

RefsOf(o) == {o.vals[i][2] : i \in {j \in 1..Len(o.vals) : IsRef(o.vals[j])}}

RECURSIVE Closure(_, _)
Closure(h, S) ==
  LET T == S \cup UNION {RefsOf(h[a]) : a \in S}
  IN IF T = S THEN S ELSE Closure(h, T)

\* the containers reachable from value v in heap h, v's own container included
Reach(h, v) == IF IsRef(v) THEN Closure(h, {v[2]}) ELSE {}

(***************************************************************************)
(* The session: literals built at the start, then calls on any value.      *)
(***************************************************************************)
\* the literals a session starts from: pairs of separate values
\*   {} and {a: {b: [1]}}
\*   {a: {a: x}}, {a: {b: y}} and {}
\*   {a: [x, 1], b: x} and {b: y, a: [y]}
\*   {a: 0, b: null} and {a: undefined}
InitHeaps ==
  {<<ArrayOf(<<Num(1)>>), MapOf(<<"b">>, <<Ref(1)>>),
     MapOf(<<"a">>, <<Ref(2)>>), MapOf(<<>>, <<>>)>>}
  \cup
  {<<MapOf(<<"a">>, <<p[1]>>), MapOf(<<"a">>, <<Ref(1)>>),
     MapOf(<<"b">>, <<p[2]>>), MapOf(<<"a">>, <<Ref(3)>>), MapOf(<<>>, <<>>)>> :
     p \in {<<Num(1), Num(0)>>, <<Num(0), Undef>>}}
  \cup
  {<<ArrayOf(<<p[1], Num(1)>>), ArrayOf(<<p[2]>>),
     MapOf(<<"a", "b">>, <<Ref(1), p[1]>>),
     MapOf(<<"b", "a">>, <<p[2], Ref(2)>>)>> :
     p \in {<<Num(0), Num(1)>>, <<Undef, Num(0)>>}}
  \cup
  {<<MapOf(<<"a", "b">>, <<Num(0), Null>>), MapOf(<<"a">>, <<Undef>>)>>}

NoRandom == [pc |-> "idle", lower |-> Undef, upper |-> Undef, floating |-> Undef,
             k |-> 0, norm |-> [lower |-> Undef, upper |-> Undef, floating |-> Undef],
             ret |-> Undef]

NoVisit == [pc |-> "idle", randomNum |-> Undef, i |-> 0, result |-> <<>>, id |-> <<>>]

NoCall == [op |-> "init", a1 |-> Undef, a2 |-> Undef, deep |-> FALSE,
           ret |-> Undef, err |-> FALSE]

Values(h) == Scalars \cup {Ref(a) : a \in 1..Len(h)}

Fits(h) == Len(h) <= MaxObj /\ \A a \in 1..Len(h) : Len(h[a].keys) <= MaxLen

Init ==
  /\ heap \in InitHeaps
  /\ pre = heap
  /\ call = NoCall
  /\ ncalls = 0
  /\ lent = {}
  /\ rnd = NoRandom
  /\ vis = NoVisit

CallMerge(t, s) ==
  LET r == deepMergeObject(heap, t, s, 0)
  IN /\ ncalls < MaxCalls
     /\ Fits(r.heap)
     /\ heap' = r.heap
     /\ pre' = heap
     /\ call' = [op |-> "merge", a1 |-> t, a2 |-> s, deep |-> FALSE,
                 ret |-> r.ret, err |-> r.err]
     /\ ncalls' = ncalls + 1
     /\ lent' = IF r.err THEN lent ELSE lent \cup Reach(r.heap, s)
     /\ UNCHANGED <<rnd, vis>>

CallClone(v, deep) ==
  LET r == cloneObject(heap, v, deep, 0)
  IN /\ ncalls < MaxCalls
     /\ Fits(r.heap)
     /\ heap' = r.heap
     /\ pre' = heap
     /\ call' = [op |-> "clone", a1 |-> v, a2 |-> Undef, deep |-> deep,
                 ret |-> r.ret, err |-> r.err]
     /\ ncalls' = ncalls + 1
     /\ UNCHANGED <<lent, rnd, vis>>

Next ==
  \/ \E t \in Values(heap), s \in Values(heap) : CallMerge(t, s)
  \/ \E v \in Values(heap), deep \in BOOLEAN : CallClone(v, deep)

Spec == Init /\ [][Next]_vars

(***************************************************************************)
(* Calls of random: the arguments are drawn at the start, the call draws   *)
(* the sample.                                                             *)
(***************************************************************************)
RandomBounds == {Undef, Num(-1), Num(0), Num(5), Halves(3), True, False, Str(1)}

RandomFlags == {Undef, True, False, Num(0), Null, Str(1)}

RandomInit ==
  /\ heap = <<>>
  /\ pre = <<>>
  /\ call = NoCall
  /\ ncalls = 0
  /\ lent = {}
  /\ vis = NoVisit
  /\ \E l \in RandomBounds, u \in RandomBounds, f \in RandomFlags :
       rnd = [NoRandom EXCEPT !.pc = "called", !.lower = l, !.upper = u,
                              !.floating = f]

CallRandom(k) ==
  /\ rnd.pc = "called"
  /\ rnd' = [rnd EXCEPT !.pc = "returned", !.k = k,
                        !.norm = Normalize(rnd.lower, rnd.upper, rnd.floating),
                        !.ret = random(rnd.lower, rnd.upper, rnd.floating, k)]
  /\ UNCHANGED <<heap, pre, call, ncalls, lent, vis>>

RandomNext == \E k \in 0..(RandDen - 1) : CallRandom(k)

RandomSpec == RandomInit /\ [][RandomNext]_vars

(***************************************************************************)
(* A call of getVisitId, one draw of Math.random() at a time.              *)
(***************************************************************************)
\* the samples drawn in getVisitId: the least, a middle and the greatest
VisitRands == {0, RandDen \div 2, RandDen - 1}

VisitInit ==
  /\ heap = <<>>
  /\ pre = <<>>
  /\ call = NoCall
  /\ ncalls = 0
  /\ lent = {}
  /\ rnd = NoRandom
  /\ vis = [NoVisit EXCEPT !.pc = "called"]

\* line 96: const randomNum = random(1, 9)
VisitNum(k) ==
  /\ vis.pc = "called"
  /\ vis' = [vis EXCEPT !.pc = "loop", !.randomNum = random(Num(1), Num(9), Undef, k)]
  /\ UNCHANGED <<heap, pre, call, ncalls, lent, rnd>>

\* lines 81-83: result += getRandomItem(chars), while i < length
VisitChar(k) ==
  /\ vis.pc = "loop"
  /\ vis.i < VisitStrLen
  /\ vis' = [vis EXCEPT !.i = @ + 1, !.result = @ \o Text(getRandomItem(chars, k))]
  /\ UNCHANGED <<heap, pre, call, ncalls, lent, rnd>>

\* lines 84-86 and 99: `${randomNum}${result.toLowerCase()}0`
VisitReturn ==
  /\ vis.pc = "loop"
  /\ vis.i = VisitStrLen
  /\ vis' = [vis EXCEPT !.pc = "done",
                        !.id = Text(vis.randomNum) \o toLowerCase(vis.result) \o <<"0">>]
  /\ UNCHANGED <<heap, pre, call, ncalls, lent, rnd>>

VisitNext ==
  \/ \E k \in VisitRands : VisitNum(k)
  \/ \E k \in VisitRands : VisitChar(k)
  \/ VisitReturn

VisitSpec == VisitInit /\ [][VisitNext]_vars

(***************************************************************************)
(* The claims.                                                             *)
(***************************************************************************)
IsMap(h, v) == IsRef(v) /\ h[v[2]].kind = "map"

Fresh(v) == IsRef(v) /\ v[2] > Len(pre)

Merged == call.op = "merge" /\ ~call.err
Cloned == call.op = "clone" /\ ~call.err

\* C1: a deepMergeObject call that returns leaves every container reachable
\* from source as it was before the call (stated for two keyed mappings of
\* which neither is a part of the other, where "only target may be changed"
\* is unambiguous)
SourceNeverMutated ==
  (/\ Merged
   /\ IsMap(pre, call.a1) /\ IsMap(pre, call.a2)
   /\ call.a1[2] \notin Reach(pre, call.a2)
   /\ call.a2[2] \notin Reach(pre, call.a1))
    => \A a \in Reach(pre, call.a2) : heap[a] = pre[a]

\* C2: if either argument of deepMergeObject is undefined, the call returns the
\* other argument (undefined only when both are undefined)
AbsentIsNeutral ==
  (Merged /\ (call.a1 = Undef \/ call.a2 = Undef))
    => call.ret = (IF call.a1 # Undef THEN call.a1 ELSE call.a2)

\* the references to the container at address a held by the containers in S
RefsTo(h, S, a) ==
  {<<b, i>> \in S \X (1..MaxLen) : i <= Len(h[b].vals) /\ h[b].vals[i] = Ref(a)}

\* v is a tree: no container reachable from v is a part of itself or is held
\* twice
Tree(h, v) ==
  \A a \in Reach(h, v) :
    /\ a \notin Closure(h, RefsOf(h[a]))
    /\ Cardinality(RefsTo(h, Reach(h, v), a)) <= 1

\* v and w are separate values: two trees with no container in common
Separate(h, v, w) ==
  Tree(h, v) /\ Tree(h, w) /\ Reach(h, v) \cap Reach(h, w) = {}

\* the last call was deepMergeObject on two keyed mappings that were separate
\* values, and it returned
MergedMaps ==
  /\ Merged
  /\ IsMap(pre, call.a1) /\ IsMap(pre, call.a2)
  /\ Separate(pre, call.a1, call.a2)


\* r is what deepMergeObject(tv, sv) has to leave behind: for two sequences a
\* fresh sequence of tv's elements followed by sv's; for two other containers
\* the instance tv itself, holding the union of the keys, the keys of tv alone
\* untouched and every key of sv merged in the same way; else the call's result
RECURSIVE MergedAs(_, _, _, _)
MergedAs(tv, sv, r, fuel) ==
  IF fuel = 0 THEN TRUE
  ELSE IF ~(IsRef(tv) /\ IsRef(sv)) THEN r = deepMergeObject(pre, tv, sv, 0).ret
  ELSE IF IsArray(pre, tv) /\ IsArray(pre, sv)
  THEN /\ Fresh(r)
       /\ IsArray(heap, r)
       /\ Elements(heap[r[2]]) = Elements(pre[tv[2]]) \o Elements(pre[sv[2]])
  ELSE LET t == tv[2]
           s == sv[2]
       IN /\ r = tv
          /\ KeySet(heap[t]) = KeySet(pre[t]) \cup KeySet(pre[s])
          /\ \A k \in KeySet(pre[t]) \ KeySet(pre[s]) : Get(heap[t], k) = Get(pre[t], k)
          /\ \A k \in KeySet(pre[s]) :
                MergedAs(Get(pre[t], k), Get(pre[s], k), Get(heap[t], k), fuel - 1)

\* C3: deepMergeObject on two keyed mappings (separate values) returns the same
\* target instance; its keys are the union of both key sets, keys of target
\* alone keep their value and every key k of source holds
\* deepMergeObject(old target[k], source[k])
MergeOfMappings ==
  MergedMaps => MergedAs(call.a1, call.a2, call.ret, MaxDepth)

\* C4: deepMergeObject on two sequences returns target's elements followed by
\* source's, at the top level and under a common key of two mappings (separate
\* values)
MergeOfSequences ==
  /\ (Merged /\ IsArray(pre, call.a1) /\ IsArray(pre, call.a2))
       => /\ IsArray(heap, call.ret)
          /\ Elements(heap[call.ret[2]])
               = Elements(pre[call.a1[2]]) \o Elements(pre[call.a2[2]])
  /\ MergedMaps
       => \A k \in KeySet(pre[call.a2[2]]) :
            LET tv == Get(pre[call.a1[2]], k)
                sv == Get(pre[call.a2[2]], k)
                r == Get(heap[call.a1[2]], k)
            IN (IsArray(pre, tv) /\ IsArray(pre, sv))
                 => /\ IsArray(heap, r)
                    /\ Elements(heap[r[2]]) = Elements(pre[tv[2]]) \o Elements(pre[sv[2]])

\* C5: cloneObject returns a fresh container, distinct from its argument, for
\* every sequence or mapping and both values of deep, and the identical value
\* for every scalar
CloneIsFresh ==
  Cloned => IF IsRef(call.a1)
            THEN /\ Fresh(call.ret)
                 /\ call.ret # call.a1
                 /\ heap[call.ret[2]].kind = pre[call.a1[2]].kind
            ELSE call.ret = call.a1

\* deep equality of value v1 in heap h1 and value v2 in heap h2: equal scalars,
\* sequences of pairwise equal elements, mappings with the same keys bound to
\* equal values
RECURSIVE DeepEq(_, _, _, _, _)
DeepEq(h1, v1, h2, v2, fuel) ==
  IF fuel = 0 THEN FALSE
  ELSE IF ~IsRef(v1) \/ ~IsRef(v2) THEN v1 = v2
  ELSE LET o1 == h1[v1[2]]
           o2 == h2[v2[2]]
       IN IF o1.kind = "arr"
          THEN /\ o2.kind = "arr"
               /\ Len(Elements(o1)) = Len(Elements(o2))
               /\ \A i \in 1..Len(Elements(o1)) :
                     DeepEq(h1, Elements(o1)[i], h2, Elements(o2)[i], fuel - 1)
          ELSE /\ o2.kind = "map"
               /\ o1.keys = o2.keys
               /\ \A i \in 1..Len(o1.keys) :
                     DeepEq(h1, o1.vals[i], h2, o2.vals[i], fuel - 1)

\* C6: for a mapping m, cloneObject(m, true) is deeply equal to m and shares
\* no container with it; cloneObject(m, false) binds the same keys to the same
\* values, nested containers being the same instances as in m
CloneOfMapping ==
  (Cloned /\ IsMap(pre, call.a1))
    => IF call.deep
       THEN /\ DeepEq(pre, call.a1, heap, call.ret, MaxDepth + 2)
            /\ Reach(heap, call.ret) \cap Reach(pre, call.a1) = {}
       ELSE /\ call.ret # call.a1
            /\ heap[call.ret[2]].keys = pre[call.a1[2]].keys
            /\ heap[call.ret[2]].vals = pre[call.a1[2]].vals

\* C10: deepMergeObject stores source's containers by reference: a container
\* under a key of source that is undefined in target becomes target's value as
\* the same instance; and a mapping already under a key of target (such as one
\* stored there from the source of an earlier call) is merged in place, so it
\* takes the keys of the later source's mapping under that key
StoredByReference ==
  MergedMaps
    => \A k \in KeySet(pre[call.a2[2]]) :
         LET tv == Get(pre[call.a1[2]], k)
             sv == Get(pre[call.a2[2]], k)
             r == Get(heap[call.a1[2]], k)
         IN /\ (tv = Undef /\ IsRef(sv)) => (r = sv /\ Get(heap[call.a2[2]], k) = sv)
            /\ (IsMap(pre, tv) /\ IsMap(pre, sv))
                 => /\ r = tv
                    /\ KeySet(pre[sv[2]]) \subseteq KeySet(heap[tv[2]])

\* reached: two separate mappings with a common key holding mappings are merged
MergeOfMappingsSeen ==
  /\ MergedMaps
  /\ \E k \in KeySet(pre[call.a2[2]]) :
       /\ IsMap(pre, Get(pre[call.a1[2]], k)) /\ IsMap(pre, Get(pre[call.a2[2]], k))
       /\ KeySet(heap[Get(pre[call.a1[2]], k)[2]]) # KeySet(pre[Get(pre[call.a1[2]], k)[2]])
  /\ KeySet(pre[call.a1[2]]) \ KeySet(pre[call.a2[2]]) # {}

\* reached: sequences under a common key of two separate mappings are merged
MergeOfSequencesSeen ==
  /\ MergedMaps
  /\ \E k \in KeySet(pre[call.a2[2]]) :
       /\ IsArray(pre, Get(pre[call.a1[2]], k)) /\ IsArray(pre, Get(pre[call.a2[2]], k))
       /\ Len(Elements(heap[Get(heap[call.a1[2]], k)[2]])) = 3

\* reached: a mapping holding a container is cloned shallowly
CloneIsFreshSeen ==
  /\ Cloned /\ IsMap(pre, call.a1) /\ ~call.deep
  /\ RefsOf(pre[call.a1[2]]) # {}

\* reached: a mapping holding a mapping that holds a sequence is cloned deeply
CloneOfMappingSeen ==
  /\ Cloned /\ IsMap(pre, call.a1) /\ call.deep
  /\ Cardinality(Reach(pre, call.a1)) = 3
  /\ Len(heap) = Len(pre) + 3

\* reached: a later call writes into a mapping that was part of the source of
\* an earlier call and is no part of its own source
StoredByReferenceSeen ==
  /\ MergedMaps
  /\ \E a \in lent \ Reach(pre, call.a2) : a <= Len(pre) /\ heap[a] # pre[a]

\* an integer number
IsInteger(v) == v[1] = "num" /\ v[2] % Unit = 0

\* C7: random(lower, upper) with integer bounds (or the single integer lower,
\* read as the range from 0) and no floating flag returns an integer r with
\* min <= r <= max of the two bounds, whatever the sample; so random(5, 5) is 5
RandomInRange ==
  (/\ rnd.pc = "returned"
   /\ rnd.floating = Undef
   /\ IsInteger(rnd.lower)
   /\ (IsInteger(rnd.upper) \/ rnd.upper = Undef))
    => LET a == rnd.lower[2]
           b == IF rnd.upper = Undef THEN 0 ELSE rnd.upper[2]
       IN /\ IsInteger(rnd.ret)
          /\ (IF a <= b THEN a ELSE b) <= rnd.ret[2]
          /\ rnd.ret[2] <= (IF a <= b THEN b ELSE a)

\* reached: random(5, -1) returns 5, the greater bound, given first
RandomInRangeSeen ==
  /\ rnd.pc = "returned"
  /\ rnd.floating = Undef /\ rnd.lower = Num(5) /\ rnd.upper = Num(-1)
  /\ rnd.ret = Num(5)

\* the normalization as the claim words it, with the rule that tells when a
\* supplied floating is discarded left open
Claimed(lower, upper, floating, discard) ==
  LET f1 == IF discard THEN Undef ELSE floating
      u1 == IF discard THEN Undef ELSE upper
      f2 == IF f1 # Undef THEN f1
            ELSE IF IsBoolean(u1) THEN u1
            ELSE IF IsBoolean(lower) THEN lower ELSE Undef
      u2 == IF f1 = Undef /\ IsBoolean(u1) THEN Undef ELSE u1
      l2 == IF f1 = Undef /\ ~IsBoolean(u1) /\ IsBoolean(lower) THEN Undef ELSE lower
      lo == IF u2 = Undef THEN Num(0) ELSE l2
      hi == IF u2 # Undef THEN u2 ELSE IF l2 = Undef THEN Num(1) ELSE l2
  IN [lower |-> IF Greater(lo, hi) THEN hi ELSE lo,
      upper |-> IF Greater(lo, hi) THEN lo ELSE hi,
      isFloat |-> Truthy(f2)]

NormalizedAs(c) ==
  /\ rnd.norm.lower = c.lower
  /\ rnd.norm.upper = c.upper
  /\ Truthy(rnd.norm.floating) = c.isFloat

\* C8 as stated: every supplied non-boolean floating discards floating and upper
NormalizedAsStated ==
  rnd.pc = "returned"
    => NormalizedAs(Claimed(rnd.lower, rnd.upper, rnd.floating,
                            rnd.floating # Undef /\ ~IsBoolean(rnd.floating)))

\* C8 as amended: a supplied non-boolean floating discards floating and upper
\* when it is truthy; a falsy one (0, null) is kept and is no floating flag
NormalizedAsAmended ==
  rnd.pc = "returned"
    => NormalizedAs(Claimed(rnd.lower, rnd.upper, rnd.floating,
                            Truthy(rnd.floating) /\ ~IsBoolean(rnd.floating)))

\* reached: random(5, true, "x"): floating and upper are discarded, then the
\* range is [0, 5]
NormalizedSeen ==
  /\ rnd.pc = "returned"
  /\ rnd.lower = Num(5) /\ rnd.upper = True /\ rnd.floating = Str(1)
  /\ rnd.norm = [lower |-> Num(0), upper |-> Num(5), floating |-> Undef]

InSeq(c, s) == \E i \in 1..Len(s) : s[i] = c

\* C9: every draw of randomString adds exactly one character of the alphabet,
\* and every getVisitId result has length 12, starts with a digit 1..9, ends
\* with "0" and holds ten digits or lowercase letters in between
VisitIdFormat ==
  /\ vis.pc \in {"loop", "done"}
       => /\ Len(vis.result) = vis.i
          /\ \A j \in 1..Len(vis.result) : InSeq(vis.result[j], chars)
  /\ vis.pc = "done"
       => /\ Len(vis.id) = 12
          /\ InSeq(vis.id[1], SubSeq(Digits, 2, 10))
          /\ vis.id[12] = "0"
          /\ \A j \in 2..11 : InSeq(vis.id[j], Digits) \/ InSeq(vis.id[j], LowerLetters)

\* reached: an id whose draws hit the first, a middle and the last character
\* of the alphabet
VisitIdSeen ==
  /\ vis.pc = "done"
  /\ InSeq("Z", vis.result) /\ InSeq("1", vis.result) /\ InSeq("v", vis.result)
  /\ vis.id[1] = "9"
  /\ vis.id[11] = "z"

====
